---- MODULE Spec2Model ----
(***************************************************************************)
(* util::UntypedTable (Sources/ComputeCxx/Util/HashTable.cpp): a chained   *)
(* hash table whose entry nodes live in an arena and are recycled through  *)
(* a free list.  The model keeps the table at the level of its pointers:   *)
(* every HashNode is an index into `nodes`, 0 is nullptr, and a bucket     *)
(* array is the function from the indices of its non-null slots to their   *)
(* head nodes.                                                             *)
(*                                                                         *)
(* Keys are pointers 1..MaxKey to client objects; KeyContent gives what    *)
(* the object holds.  The table is built by the parameterized constructor  *)
(* with a client hash (custom_hash) and either no comparator (pointer      *)
(* identity) or a client comparator that compares contents.  The default   *)
(* constructor differs only in hashing with pointer_hash, a 64-bit mixing  *)
(* function; the table uses a hash only through _bucket_mask & hash and    *)
(* through equality of stored hashes, which custom_hash exercises with     *)
(* keys that share a bucket, keys that share a whole hash and keys that    *)
(* share neither.                                                          *)
(*                                                                         *)
(* A call whose loop never ends leaves pc = "hung".  `live` and `removed`  *)
(* record what a caller of a correct table expects; the code never reads   *)
(* them.                                                                   *)
(***************************************************************************)
EXTENDS Integers, Sequences, FiniteSets, TLC

\* ------------------------------------------------------------- bounds
MaxKey == 4      \* keys are the pointers 1..MaxKey
MaxVal == 1      \* values are the pointers 1..MaxVal
MaxCalls == 3    \* insert and remove calls in one run of Spec
GrowCalls == 66  \* insert and remove calls in one run of SpecGrow
RemoveWindow == 3 \* SpecGrow removes only among its first RemoveWindow calls
CapNodes == 2    \* SpecCap starts from tables of up to CapNodes entries
MaxPtr == 3      \* Nodes and IndirectNodes at MaxPtr arena offsets each, 4 bytes apart

\* ------------------------------------------------------------- program constants
initial_bucket_mask_width == 4
max_bucket_mask_width == 30    \* 0x1E
load_factor == 4
max_array_shift == 30          \* the largest n for which the int 1 << n is positive

Keys == 1..MaxKey
Vals == 1..MaxVal
nullptr == 0

VARIABLES
    _compare_by_pointer,  \* BOOLEAN
    _did_remove_key,      \* BOOLEAN: a key callback is registered
    _did_remove_value,    \* BOOLEAN: a value callback is registered
    _is_heap_owner,       \* BOOLEAN
    _heap,                \* "null" | "own" (created by the table) | "ext" (the caller's)
    _buckets_mem,         \* where _buckets points: "null" | "arena" | "malloc"
    _buckets,             \* [bucket index -> head node], non-null slots only
    nodes,                \* arena HashNodes: Seq([key, value, hash_value, next])
    _spare_node,          \* head of the free list
    _count,
    _bucket_mask,
    _bucket_mask_width,
    mem_log,              \* releases of memory, in order
    pc,                   \* "live" | "hung" (a call that never returns) | "destroyed"
                          \* | "thrown" (a call left by an exception)
    last,                 \* the last call: its arguments, result and callbacks
    calls,                \* insert and remove calls made so far
    live,                 \* the entries a caller expects: Seq([key, value]), oldest first
    removed,              \* keys whose last insert or successful remove was the remove
    max_live,             \* the most entries a caller has had in the table at once
    _value,               \* an AttributeID under test (AttributeID.h)
    indirect_nodes,       \* [IndirectNode pointer -> its node], the graph resolve reads
    attr_last             \* the last AttributeID call: its arguments and result

cfgVars == <<_compare_by_pointer, _did_remove_key, _did_remove_value, _is_heap_owner>>
tblVars == <<_heap, _buckets_mem, _buckets, nodes, _spare_node, _count, _bucket_mask,
             _bucket_mask_width, mem_log>>
attrVars == <<_value, indirect_nodes, attr_last>>
tableVars == <<cfgVars, tblVars, pc, last, calls, live, removed, max_live>>
vars == <<cfgVars, tblVars, pc, last, calls, live, removed, max_live, attrVars>>

\* ------------------------------------------------------------- client functions
\* The object a key points to: keys 1 and 2 point to equal objects.
KeyContent(key) == IF key = 1 THEN 2 ELSE key

\* The client's hash, a function of the content: contents 2 and 3 share the low
\* 4 bits and differ in bit 4, and so do 4 and 5, and so on.
custom_hash(key) ==
    LET d == KeyContent(key) - 2 IN (d % 2) * 16 + (d \div 2)

custom_compare(a, b) == KeyContent(a) = KeyContent(b)

pointer_compare(a, b) == a = b

_compare(a, b) == IF _compare_by_pointer THEN pointer_compare(a, b) ELSE custom_compare(a, b)

_hash(key) == custom_hash(key)

\* ------------------------------------------------------------- helpers
RECURSIVE BitAnd(_, _)
BitAnd(a, b) ==
    IF a = 0 \/ b = 0 THEN 0
    ELSE (a % 2) * (b % 2) + 2 * BitAnd(a \div 2, b \div 2)

Shl(a, n) == a * 2^n

\* _buckets[i]
BucketAt(buckets, i) == IF i \in DOMAIN buckets THEN buckets[i] ELSE nullptr

\* _buckets[i] = n
SetBucket(buckets, i, n) ==
    IF n = nullptr
    THEN [j \in (DOMAIN buckets) \ {i} |-> buckets[j]]
    ELSE [j \in (DOMAIN buckets) \cup {i} |-> IF j = i THEN n ELSE buckets[j]]

EmptyBuckets == [j \in {} |-> nullptr]

RECURSIVE SortedSeq(_)
SortedSeq(S) ==
    IF S = {} THEN <<>>
    ELSE LET m == CHOOSE x \in S : \A y \in S : x <= y
         IN <<m>> \o SortedSeq(S \ {m})

NoAttrCall == [op |-> "none", receiver |-> 0, arg |-> 0, options |-> {}, ret |-> 0,
               flag |-> FALSE, offset |-> 0, hops |-> 0, trap |-> FALSE]

NoCall == [op |-> "none", key |-> nullptr, value |-> nullptr, ret |-> FALSE,
           found_key |-> nullptr, found_value |-> nullptr,
           callbacks |-> <<>>, visited |-> <<>>]

\* The callbacks a removal of `n` makes, in order.
Callbacks(nd, n) ==
    (IF _did_remove_key THEN <<[cb |-> "key", arg |-> nd[n].key]>> ELSE <<>>)
    \o (IF _did_remove_value THEN <<[cb |-> "value", arg |-> nd[n].value]>> ELSE <<>>)

\* ------------------------------------------------------------- chain walks
\* The loop `for (candidate = node; candidate != nullptr; candidate = candidate->next)`
\* with `node` trailing one step behind.  A walk does not write, so one that takes
\* more steps than there are nodes has entered a cycle and never ends.
MatchGeneral(nd, n, key, hash_value) ==
    nd[n].hash_value = hash_value /\ _compare(nd[n].key, key)

MatchPointer(nd, n, key) == nd[n].key = key

RECURSIVE Walk(_, _, _, _, _, _, _)
Walk(nd, candidate, node, key, hash_value, by_pointer, fuel) ==
    IF candidate = nullptr THEN [found |-> nullptr, node |-> node, hang |-> FALSE]
    ELSE IF fuel = 0 THEN [found |-> nullptr, node |-> node, hang |-> TRUE]
    ELSE IF (IF by_pointer THEN MatchPointer(nd, candidate, key)
             ELSE MatchGeneral(nd, candidate, key, hash_value))
    THEN [found |-> candidate, node |-> node, hang |-> FALSE]
    ELSE Walk(nd, nd[candidate].next, candidate, key, hash_value, by_pointer, fuel - 1)

FindIn(nd, head, key, hash_value, by_pointer) ==
    Walk(nd, head, head, key, hash_value, by_pointer, Len(nd) + 1)

\* The nodes of the chain from `n`, in order; <<-1>> ends a chain that cycles.
RECURSIVE Chain(_, _, _)
Chain(nd, n, fuel) ==
    IF n = nullptr THEN <<>>
    ELSE IF fuel = 0 THEN <<-1>>
    ELSE <<n>> \o Chain(nd, nd[n].next, fuel - 1)

ChainOf(nd, n) == Chain(nd, n, Len(nd) + 1)

\* All chains in bucket-index order, as one sequence of nodes.
RECURSIVE AllChains(_, _, _)
AllChains(nd, buckets, idx) ==
    IF idx = <<>> THEN <<>>
    ELSE LET c == ChainOf(nd, buckets[Head(idx)])
         IN IF c # <<>> /\ c[Len(c)] = -1 THEN c
            ELSE c \o AllChains(nd, buckets, Tail(idx))

Visit(nd, buckets) == AllChains(nd, buckets, SortedSeq(DOMAIN buckets))

Hangs(c) == c # <<>> /\ c[Len(c)] = -1

\* ------------------------------------------------------------- construction
\* UntypedTable(custom_hash, custom_compare, did_remove_key, did_remove_value, heap):
\* the caller passes a comparator or none, each callback or none, an arena or none.
\* A table that takes every arena for its own.
is_heap_owner_always(heap) == TRUE

\* _is_heap_owner(heap == nullptr)
is_heap_owner(heap) == heap = "null"

Init ==
    /\ _compare_by_pointer \in BOOLEAN
    /\ _did_remove_key \in BOOLEAN
    /\ _did_remove_value \in BOOLEAN
    /\ _heap \in {"null", "ext"}
    /\ _is_heap_owner = is_heap_owner(_heap)
    /\ _spare_node = nullptr
    /\ _buckets_mem = "null"
    /\ _buckets = EmptyBuckets
    /\ nodes = <<>>
    /\ _count = 0
    /\ _bucket_mask = 0
    /\ _bucket_mask_width = 0
    /\ mem_log = <<>>
    /\ pc = "live"
    /\ last = NoCall
    /\ calls = 0
    /\ live = <<>>
    /\ removed = {}
    /\ max_live = 0
    /\ _value = 0
    /\ indirect_nodes = <<>>
    /\ attr_last = NoAttrCall

\* ------------------------------------------------------------- growth
\* The inner loop of grow_buckets over one old chain: each node is pushed on the
\* head of its new bucket, and the loop then steps to node->next, which it has just
\* overwritten with the new bucket's previous head.  A second step therefore happens
\* only when that bucket was not empty, and from then on the loop swaps the same two
\* nodes (or one node with itself) for ever.
RECURSIVE Relink(_, _, _, _, _)
Relink(nd, new_buckets, node, mask, fuel) ==
    IF node = nullptr THEN [nodes |-> nd, buckets |-> new_buckets, hang |-> FALSE]
    ELSE IF fuel = 0 THEN [nodes |-> nd, buckets |-> new_buckets, hang |-> TRUE]
    ELSE LET new_bucket == BitAnd(mask, nd[node].hash_value)
             nd2 == [nd EXCEPT ![node].next = BucketAt(new_buckets, new_bucket)]
         IN Relink(nd2, SetBucket(new_buckets, new_bucket, node), nd2[node].next,
                   mask, fuel - 1)

\* The outer loop, over the old buckets in index order.
RECURSIVE Redistribute(_, _, _, _, _)
Redistribute(nd, old_buckets, idx, new_buckets, mask) ==
    IF idx = <<>> THEN [nodes |-> nd, buckets |-> new_buckets, hang |-> FALSE]
    ELSE LET r == Relink(nd, new_buckets, old_buckets[Head(idx)], mask, Len(nd) + 1)
         IN IF r.hang THEN r
            ELSE Redistribute(r.nodes, old_buckets, Tail(idx), r.buckets, mask)

\* grow_buckets() on a table with the given fields.  `1 << _bucket_mask_width` is an
\* int: at width 31 it is negative, and `new Bucket[1 << 31]` throws
\* std::bad_array_new_length after the width has been written.
grow_buckets(nd, buckets, buckets_mem, width, mask, heap, log) ==
    IF width > max_bucket_mask_width
    THEN [nodes |-> nd, buckets |-> buckets, buckets_mem |-> buckets_mem, width |-> width,
          mask |-> mask, heap |-> heap, log |-> log, hang |-> FALSE, throws |-> FALSE]
    ELSE IF width + 1 > max_array_shift
    THEN [nodes |-> nd, buckets |-> buckets, buckets_mem |-> buckets_mem,
          width |-> width + 1, mask |-> mask, heap |-> heap, log |-> log,
          hang |-> FALSE, throws |-> TRUE]
    ELSE LET old_width == width
             new_width == old_width + 1
             new_mem == IF old_width >= initial_bucket_mask_width THEN "malloc" ELSE "arena"
             new_heap == IF new_mem = "arena" /\ heap = "null" THEN "own" ELSE heap
             new_mask == Shl(1, new_width) - 1
             r == Redistribute(nd, buckets, SortedSeq(DOMAIN buckets), EmptyBuckets, new_mask)
         IN [nodes |-> r.nodes, buckets |-> r.buckets, buckets_mem |-> new_mem,
             width |-> new_width, mask |-> new_mask, heap |-> new_heap,
             log |-> IF old_width > initial_bucket_mask_width
                     THEN Append(log, [call |-> "delete", what |-> buckets_mem])
                     ELSE log,
             hang |-> r.hang, throws |-> FALSE]

\* ------------------------------------------------------------- what the caller expects
\* The positions of `live` that hold a key equal to `key` for the table's comparator.
LiveAt(lv, key) == {i \in 1..Len(lv) : _compare(lv[i].key, key)}

\* After insert(key, value): an equal entry is replaced where it stands, a new one
\* is the youngest.
LivePut(lv, key, value) ==
    IF LiveAt(lv, key) = {}
    THEN Append(lv, [key |-> key, value |-> value])
    ELSE [i \in 1..Len(lv) |->
            IF i \in LiveAt(lv, key) THEN [key |-> key, value |-> value] ELSE lv[i]]

RECURSIVE LiveDel(_, _)
LiveDel(lv, key) ==
    IF lv = <<>> THEN <<>>
    ELSE IF _compare(lv[1].key, key) THEN LiveDel(Tail(lv), key)
    ELSE <<lv[1]>> \o LiveDel(Tail(lv), key)

\* ------------------------------------------------------------- insert
\* The test of the pre-insert count, one insert late.
needs_growth_late(count, width) == count > Shl(load_factor, width)

\* if (_count + 1 > 4 << _bucket_mask_width)
needs_growth(count, width) == count + 1 > Shl(load_factor, width)

\* bool insert(key, value)
Insert(key, value) ==
    /\ pc = "live"
    /\ calls' = calls + 1
    /\ UNCHANGED attrVars
    /\ removed' = {k \in removed : ~_compare(k, key)}
    /\ LET create == _buckets_mem = "null"                         \* create_buckets()
           width0 == IF create THEN initial_bucket_mask_width ELSE _bucket_mask_width
           mask0 == IF create THEN Shl(1, initial_bucket_mask_width) - 1 ELSE _bucket_mask
           heap0 == IF create /\ _heap = "null" THEN "own" ELSE _heap
           mem0 == IF create THEN "arena" ELSE _buckets_mem
           hash_value == _hash(key)
           w == FindIn(nodes, BucketAt(_buckets, BitAnd(hash_value, mask0)),
                       key, hash_value, FALSE)
           grow == needs_growth(_count, width0)
           g == IF grow
                THEN grow_buckets(nodes, _buckets, mem0, width0, mask0, heap0, mem_log)
                ELSE [nodes |-> nodes, buckets |-> _buckets, buckets_mem |-> mem0,
                      width |-> width0, mask |-> mask0, heap |-> heap0, log |-> mem_log,
                      hang |-> FALSE, throws |-> FALSE]
           call == [NoCall EXCEPT !.op = "insert", !.key = key, !.value = value]
       IN IF w.hang
          THEN /\ pc' = "hung"
               /\ last' = call
               /\ _heap' = heap0 /\ _buckets_mem' = mem0
               /\ _bucket_mask' = mask0 /\ _bucket_mask_width' = width0
               /\ UNCHANGED <<cfgVars, _buckets, nodes, _spare_node, _count, mem_log, live>>
          ELSE IF w.found # nullptr
          THEN \* replace existing if match
               /\ nodes' = [nodes EXCEPT ![w.found].key = key, ![w.found].value = value]
               /\ last' = [call EXCEPT !.ret = FALSE, !.callbacks = Callbacks(nodes, w.found)]
               /\ live' = LivePut(live, key, value)
               /\ _heap' = heap0 /\ _buckets_mem' = mem0
               /\ _bucket_mask' = mask0 /\ _bucket_mask_width' = width0
               /\ UNCHANGED <<cfgVars, _buckets, _spare_node, _count, mem_log, pc>>
          ELSE IF g.hang \/ g.throws
          THEN /\ pc' = IF g.throws THEN "thrown" ELSE "hung"
               /\ last' = call
               /\ nodes' = g.nodes
               /\ _heap' = g.heap /\ _buckets_mem' = mem0
               /\ _bucket_mask' = g.mask /\ _bucket_mask_width' = g.width
               /\ UNCHANGED <<cfgVars, _buckets, _spare_node, _count, mem_log, live>>
          ELSE \* insert new
               LET fresh == _spare_node = nullptr
                   inserted_node == IF fresh THEN Len(g.nodes) + 1 ELSE _spare_node
                   bucket == BitAnd(g.mask, hash_value)
                   filled == [key |-> key, value |-> value, hash_value |-> hash_value,
                              next |-> BucketAt(g.buckets, bucket)]
               IN /\ _spare_node' = IF fresh THEN nullptr ELSE g.nodes[_spare_node].next
                  /\ nodes' = IF fresh THEN Append(g.nodes, filled)
                              ELSE [g.nodes EXCEPT ![inserted_node] = filled]
                  /\ _buckets' = SetBucket(g.buckets, bucket, inserted_node)
                  /\ _buckets_mem' = g.buckets_mem
                  /\ _bucket_mask' = g.mask /\ _bucket_mask_width' = g.width
                  /\ _heap' = IF g.heap = "null" THEN "own" ELSE g.heap
                  /\ mem_log' = g.log
                  /\ _count' = _count + 1
                  /\ last' = [call EXCEPT !.ret = TRUE]
                  /\ live' = LivePut(live, key, value)
                  /\ UNCHANGED <<cfgVars, pc>>
    /\ max_live' = IF Len(live') > max_live THEN Len(live') ELSE max_live

\* ------------------------------------------------------------- remove
\* The shared tail of remove and remove_ptr once the chain has been walked.
Unlink(w, call) ==
    LET candidate == w.found
        nd1 == [nodes EXCEPT ![w.node].next = nodes[candidate].next]
    IN /\ nodes' = [nd1 EXCEPT ![candidate].next = _spare_node]
       /\ _spare_node' = candidate
       /\ _count' = _count - 1
       /\ last' = [call EXCEPT !.ret = TRUE, !.callbacks = Callbacks(nodes, candidate)]

\* bool remove(key), with remove_ptr(key) for a table that compares by pointer.
Remove(key) ==
    /\ pc = "live"
    /\ calls' = calls + 1
    /\ LET call == [NoCall EXCEPT !.op = "remove", !.key = key]
           hash_value == _hash(key)
           w == FindIn(nodes, BucketAt(_buckets, BitAnd(_bucket_mask, hash_value)),
                       key, hash_value, _compare_by_pointer)
       IN /\ live' = LiveDel(live, key)
          /\ IF _count = 0
             THEN /\ last' = [call EXCEPT !.ret = FALSE]
                  /\ UNCHANGED <<nodes, _spare_node, _count, pc>>
             ELSE IF w.hang
             THEN /\ pc' = "hung"
                  /\ last' = call
                  /\ UNCHANGED <<nodes, _spare_node, _count>>
             ELSE IF w.found # nullptr
             THEN Unlink(w, call) /\ UNCHANGED pc
             ELSE IF _compare_by_pointer
             THEN \* remove_ptr falls off its end: the value returned is whatever
                  \* the build leaves in the return register
                  /\ \E r \in BOOLEAN : last' = [call EXCEPT !.ret = r]
                  /\ UNCHANGED <<nodes, _spare_node, _count, pc>>
             ELSE /\ last' = [call EXCEPT !.ret = FALSE]
                  /\ UNCHANGED <<nodes, _spare_node, _count, pc>>
          /\ removed' = IF pc' = "live" /\ last'.ret THEN removed \cup {key} ELSE removed
          /\ UNCHANGED <<cfgVars, _heap, _buckets_mem, _buckets, _bucket_mask,
                         _bucket_mask_width, mem_log, max_live, attrVars>>

\* ------------------------------------------------------------- lookup
\* lookup(key, &found_key) on the given fields: [value, found_key, hang].
lookup(nd, buckets, count, mask, key) ==
    LET hash_value == _hash(key)
        w == FindIn(nd, BucketAt(buckets, BitAnd(mask, hash_value)), key, hash_value,
                    _compare_by_pointer)
    IN IF count = 0 THEN [value |-> nullptr, found_key |-> nullptr, hang |-> FALSE]
       ELSE IF w.hang THEN [value |-> nullptr, found_key |-> nullptr, hang |-> TRUE]
       ELSE IF w.found # nullptr
       THEN [value |-> nd[w.found].value, found_key |-> nd[w.found].key, hang |-> FALSE]
       ELSE [value |-> nullptr, found_key |-> nullptr, hang |-> FALSE]

Lookup(key) ==
    /\ pc = "live"
    /\ LET r == lookup(nodes, _buckets, _count, _bucket_mask, key)
       IN /\ pc' = IF r.hang THEN "hung" ELSE pc
          /\ last' = [NoCall EXCEPT !.op = "lookup", !.key = key,
                                    !.found_key = r.found_key, !.found_value = r.value]
    /\ UNCHANGED <<cfgVars, tblVars, calls, live, removed, max_live, attrVars>>

\* ------------------------------------------------------------- for_each
\* The entries for_each hands to `body`, in order.
Entries(nd, c) == [i \in 1..Len(c) |-> [key |-> nd[c[i]].key, value |-> nd[c[i]].value]]

ForEach ==
    /\ pc = "live"
    /\ LET c == IF _count = 0 THEN <<>> ELSE Visit(nodes, _buckets)
       IN /\ pc' = IF Hangs(c) THEN "hung" ELSE pc
          /\ last' = [NoCall EXCEPT !.op = "for_each",
                        !.visited = IF Hangs(c) THEN <<>> ELSE Entries(nodes, c)]
    /\ UNCHANGED <<cfgVars, tblVars, calls, live, removed, max_live, attrVars>>

\* ------------------------------------------------------------- destruction
RECURSIVE AllCallbacks(_, _)
AllCallbacks(nd, c) ==
    IF c = <<>> THEN <<>> ELSE Callbacks(nd, Head(c)) \o AllCallbacks(nd, Tail(c))

\* ~UntypedTable()
Destroy ==
    /\ pc = "live"
    /\ LET notify == (_did_remove_key \/ _did_remove_value) /\ _count # 0
           c == IF notify THEN Visit(nodes, _buckets) ELSE <<>>
           freed == IF _bucket_mask > 4
                    THEN <<[call |-> "free", what |-> _buckets_mem]>> ELSE <<>>
           heap_gone == IF _is_heap_owner /\ _heap # "null"
                        THEN <<[call |-> "reset", what |-> _heap],
                               [call |-> "delete", what |-> _heap]>>
                        ELSE <<>>
       IN IF Hangs(c)
          THEN /\ pc' = "hung"
               /\ last' = [NoCall EXCEPT !.op = "destroy"]
               /\ UNCHANGED mem_log
          ELSE /\ pc' = "destroyed"
               /\ last' = [NoCall EXCEPT !.op = "destroy", !.callbacks = AllCallbacks(nodes, c)]
               /\ mem_log' = mem_log \o freed \o heap_gone
    /\ UNCHANGED <<cfgVars, _heap, _buckets_mem, _buckets, nodes, _spare_node, _count,
                   _bucket_mask, _bucket_mask_width, calls, live, removed, max_live,
                   attrVars>>

\* ------------------------------------------------------------- specification
InsertAny == calls < MaxCalls /\ \E key \in Keys, value \in Vals : Insert(key, value)
RemoveAny == calls < MaxCalls /\ \E key \in Keys : Remove(key)
LookupAny == \E key \in Keys : Lookup(key)

Next == InsertAny \/ RemoveAny \/ LookupAny \/ ForEach \/ Destroy

Spec == Init /\ [][Next]_vars

\* A caller that fills the table: every insert brings a new key, MaxKey + 1,
\* MaxKey + 2, ..., and only the first few calls may be removes.
GrowInsert == calls < GrowCalls /\ Insert(MaxKey + calls + 1, 1)
GrowRemove ==
    /\ calls < RemoveWindow
    /\ \E key \in (MaxKey + 1)..(MaxKey + calls) : Remove(key)

\* The caller inserts its latest key once more, early on or when the table is as
\* full as it gets without growing, and looks its oldest key up.
GrowReplace ==
    /\ 0 < calls /\ calls < GrowCalls
    /\ calls < RemoveWindow \/ _count = Shl(load_factor, _bucket_mask_width)
    /\ Insert(MaxKey + calls, 1)
GrowLookup == Lookup(MaxKey + 1)

NextGrow == GrowInsert \/ GrowRemove \/ GrowReplace \/ GrowLookup \/ ForEach \/ Destroy

SpecGrow == Init /\ [][NextGrow]_vars

\* ------------------------------------------------------------- properties
lookup_now(key) == lookup(nodes, _buckets, _count, _bucket_mask, key)
lookup_next(key) == lookup(nodes', _buckets', _count', _bucket_mask', key)

NotFound == [value |-> nullptr, found_key |-> nullptr, hang |-> FALSE]

\* The nodes reachable from `n` by next links.
ReachFrom(nd, n) == {ChainOf(nd, n)[i] : i \in 1..Len(ChainOf(nd, n))} \ {-1}

\* The nodes reachable from the bucket array.
Reachable(nd, buckets) == UNION {ReachFrom(nd, buckets[b]) : b \in DOMAIN buckets}

BucketOf(mask, key) == BitAnd(mask, _hash(key))

RECURSIVE Reverse(_)
Reverse(q) == IF q = <<>> THEN <<>> ELSE Reverse(Tail(q)) \o <<Head(q)>>

RECURSIVE Concat(_, _)
Concat(f, idx) == IF idx = <<>> THEN <<>> ELSE f[Head(idx)] \o Concat(f, Tail(idx))

\* The entries of `lv` a bucket holds, youngest first.
ExpectedChain(lv, mask, b) ==
    LET InB(e) == BucketOf(mask, e.key) = b IN Reverse(SelectSeq(lv, InB))

\* The order for_each is to visit the entries of `lv` in.
ExpectedVisit(lv, mask) ==
    LET B == {BucketOf(mask, lv[i].key) : i \in 1..Len(lv)}
    IN Concat([b \in B |-> ExpectedChain(lv, mask, b)], SortedSeq(B))

\* The callbacks owed to the entries `q`, entry by entry, key then value.
RECURSIVE Owed(_)
Owed(q) ==
    IF q = <<>> THEN <<>>
    ELSE (IF _did_remove_key THEN <<[cb |-> "key", arg |-> Head(q).key]>> ELSE <<>>)
         \o (IF _did_remove_value THEN <<[cb |-> "value", arg |-> Head(q).value]>> ELSE <<>>)
         \o Owed(Tail(q))

\* The entries of `live` with a key equal to `key`.
LiveEqual(key) == LET Eq(e) == _compare(e.key, key) IN SelectSeq(live, Eq)

\* `cbs` notifies each entry of `lv` once, key then value, the entries in any order.
NotifiesEach(cbs, lv) ==
    /\ Len(cbs) = 2 * Len(lv)
    /\ \A i \in 1..Len(lv) : cbs[2 * i - 1].cb = "key" /\ cbs[2 * i].cb = "value"
    /\ {<<cbs[2 * i - 1].arg, cbs[2 * i].arg>> : i \in 1..Len(lv)}
         = {<<lv[i].key, lv[i].value>> : i \in 1..Len(lv)}

\* C1: for every key whose most recent insert or remove was insert(k, v),
\* lookup(k) returns v (a later insert of an equal key leaves only its value).
C1_RoundTrip ==
    pc = "live" =>
        \A i \in 1..Len(live) :
            /\ ~lookup_now(live[i].key).hang
            /\ lookup_now(live[i].key).value = live[i].value

\* C2: after a remove(k) that returned true, lookup(k) reports "not found"
\* (null value, null found key) until k is inserted again.
C2_RemovedNotFound ==
    pc = "live" => \A k \in removed : lookup_now(k) = NotFound

\* C3: remove(k) of a key that was never inserted, or is already removed, returns
\* false, leaves chains, count and free list as they were and fires no callback.
C3_RemoveAbsent ==
    [][(last'.op = "remove" /\ calls' = calls + 1 /\ LiveEqual(last'.key) = <<>>)
        => /\ pc' = "live"
           /\ last'.ret = FALSE
           /\ last'.callbacks = <<>>
           /\ UNCHANGED <<_buckets, nodes, _spare_node, _count>>]_vars

\* C4: when an insert grows the bucket array, every node reachable before is
\* reachable afterwards from exactly one chain, that of the bucket its stored hash
\* selects under the new mask, and every key lookup found before is found after.
C4_GrowthKeepsEntries ==
    [][(_buckets_mem # "null" /\ _bucket_mask_width' = _bucket_mask_width + 1)
        => /\ pc' = "live"
           /\ \A n \in Reachable(nodes, _buckets) :
                /\ n \in ReachFrom(nodes', BucketAt(_buckets',
                                     BitAnd(_bucket_mask', nodes[n].hash_value)))
                /\ Cardinality({b \in DOMAIN _buckets' :
                                    n \in ReachFrom(nodes', _buckets'[b])}) = 1
           /\ \A i \in 1..Len(live) :
                lookup_now(live[i].key).value = live[i].value
                    => lookup_next(live[i].key).value = live[i].value]_vars

\* C5: insert(k, v) returns true exactly when no entry with a key equal to k is
\* present before the call, and then the live count is one higher; it returns
\* false exactly when one is present, and then the count is unchanged.
C5_InsertResult ==
    [][(last'.op = "insert" /\ calls' = calls + 1 /\ pc' = "live")
        => /\ last'.ret = (LiveEqual(last'.key) = <<>>)
           /\ _count' = IF LiveEqual(last'.key) = <<>> THEN _count + 1 ELSE _count]_vars

\* C6: _count is the number of keys present, which is the number of entries
\* reachable from the buckets; no removed entry is found or visited.
C6_LiveCount ==
    pc = "live" =>
        /\ _count = Len(live)
        /\ _count = Cardinality(Reachable(nodes, _buckets))
        /\ \A n \in Reachable(nodes, _buckets) : LiveEqual(nodes[n].key) # <<>>

\* C7: with both callbacks registered, every call notifies exactly the entries
\* that leave the table in it, each once, key callback then value callback, with
\* the stored key and value: the removed entry, the replaced entry, and at
\* destruction every live entry.
C7_CallbackFidelity ==
    [][(_did_remove_key /\ _did_remove_value /\ last'.op # "none" /\ last' # last)
        => /\ last'.op = "destroy" => pc' = "destroyed" /\ NotifiesEach(last'.callbacks, live)
           /\ (last'.op \in {"insert", "remove"} /\ pc' = "live")
                => last'.callbacks = Owed(LiveEqual(last'.key))
           /\ last'.op \in {"lookup", "for_each"} => last'.callbacks = <<>>]_vars

\* C8: for_each visits every live entry once and nothing else, buckets in
\* ascending index order and each bucket youngest entry first.
C8_ForEachOrder ==
    last.op = "for_each" =>
        /\ pc = "live"
        /\ last.visited = ExpectedVisit(live, _bucket_mask)

\* The first node of the chain `c` that `key` matches.
FirstMatch(nd, c, key) ==
    c[CHOOSE i \in 1..Len(c) :
        /\ MatchGeneral(nd, c[i], key, _hash(key))
        /\ \A j \in 1..(i - 1) : ~MatchGeneral(nd, c[j], key, _hash(key))]

\* The nodes of the chain `c` other than `n`, with what they hold.
Others(nd, c, n) ==
    LET Other(m) == m # n
        o == SelectSeq(c, Other)
    IN [i \in 1..Len(o) |-> [node |-> o[i], key |-> nd[o[i]].key,
                             value |-> nd[o[i]].value, hash_value |-> nd[o[i]].hash_value]]

\* C9: a remove that takes an entry out of a chain leaves every other entry of that
\* chain reachable, in the same relative order, with key, value and stored hash
\* unchanged, wherever in the chain the removed entry was.
C9_RemoveKeepsChain ==
    [][LET b == BucketOf(_bucket_mask, last'.key)
           c == ChainOf(nodes, BucketAt(_buckets, b))
       IN (/\ last'.op = "remove" /\ calls' = calls + 1 /\ pc' = "live" /\ last'.ret
           /\ ~Hangs(c)
           /\ \E i \in 1..Len(c) : MatchGeneral(nodes, c[i], last'.key, _hash(last'.key)))
          => LET n == FirstMatch(nodes, c, last'.key)
             IN Others(nodes', ChainOf(nodes', BucketAt(_buckets', b)), n)
                    = Others(nodes, c, n)]_vars

\* C10: no two entries reachable from the buckets have keys the comparator holds
\* equal, and no node is reachable from two buckets.
C10_KeyUnique ==
    pc = "live" =>
        /\ \A m, n \in Reachable(nodes, _buckets) :
              m # n => ~_compare(nodes[m].key, nodes[n].key)
        /\ \A a, b \in DOMAIN _buckets :
              a # b => ReachFrom(nodes, _buckets[a]) \cap ReachFrom(nodes, _buckets[b]) = {}

\* ============================================================= AttributeID
\* Attribute/AttributeID.h: a 32-bit arena offset with the kind in its low two bits.
KindMask == 3                 \* 0x3
Direct == 0
Indirect == 1                 \* 1 << 0
NilAttribute == 2             \* 1 << 1
Kinds == {Direct, Indirect, NilAttribute}

\* TraversalOptions
AssertNotNil == "AssertNotNil"
ReportIndirectionInOffset == "ReportIndirectionInOffset"

RECURSIVE BitOr(_, _)
BitOr(a, b) ==
    IF a = 0 THEN b
    ELSE IF b = 0 THEN a
    ELSE (IF a % 2 = 1 \/ b % 2 = 1 THEN 1 ELSE 0) + 2 * BitOr(a \div 2, b \div 2)

\* a & ~b
RECURSIVE BitAndNot(_, _)
BitAndNot(a, b) ==
    IF a = 0 THEN 0
    ELSE (a % 2) * (1 - (b % 2)) + 2 * BitAndNot(a \div 2, b \div 2)

\* data::ptr<Node> and data::ptr<IndirectNode>: arena offsets with the two low bits
\* clear; 0 is the null offset.
NodePtrs == {4 * i : i \in 0..MaxPtr}
IndirectPtrs == {4 * (MaxPtr + i) : i \in 1..MaxPtr}

\* AttributeID(data::ptr<Node> node)
AttributeID_node(node) == BitOr(node, Direct)

\* AttributeID(data::ptr<IndirectNode> indirect_node)
AttributeID_indirect(indirect_node) == BitOr(indirect_node, Indirect)

make_nil == NilAttribute

\* operator bool()
operator_bool(value) == value = 0

kind(value) == BitAnd(value, KindMask)

\* with_kind without the clearing of the old kind.
with_kind_keeping(value, k) == BitOr(value, k)

with_kind(value, k) == BitOr(BitAndNot(value, KindMask), k)

is_direct(value) == kind(value) = Direct
is_indirect(value) == kind(value) = Indirect
is_nil(value) == kind(value) = NilAttribute

\* to_indirect_node(): the offset of the IndirectNode behind an Indirect reference.
to_indirect_node(value) == BitAndNot(value, KindMask)

\* The number of indirections itself as the reported offset.
resolve_offset_plain(hops, options) ==
    IF ReportIndirectionInOffset \in options THEN hops ELSE 0

\* The offset resolve reports for `hops` indirections traversed (TraversalOptions,
\* ReportIndirectionInOffset).
resolve_offset(hops, options) ==
    IF ReportIndirectionInOffset \in options /\ hops > 0 THEN hops + 1 ELSE 0

\* OffsetAttributeID resolve(TraversalOptions options): follows the sources of
\* IndirectNodes from `value` to a Direct or Nil reference.  A Nil end under
\* AssertNotNil, an Indirect reference that is not the offset of an IndirectNode and
\* a walk longer than there are IndirectNodes all trap.
RECURSIVE resolve_from(_, _, _, _, _)
resolve_from(graph, value, options, hops, fuel) ==
    IF is_nil(value)
    THEN [attribute |-> value, offset |-> 0, hops |-> hops, trap |-> AssertNotNil \in options]
    ELSE IF is_direct(value)
    THEN [attribute |-> value, offset |-> resolve_offset(hops, options), hops |-> hops,
          trap |-> FALSE]
    ELSE IF ~is_indirect(value) \/ to_indirect_node(value) \notin DOMAIN graph \/ fuel = 0
    THEN [attribute |-> value, offset |-> 0, hops |-> hops, trap |-> TRUE]
    ELSE resolve_from(graph, graph[to_indirect_node(value)].source, options, hops + 1,
                      fuel - 1)

resolve(graph, value, options) ==
    resolve_from(graph, value, options, 0, Cardinality(DOMAIN graph))

\* ------------------------------------------------------------- AttributeID calls
\* The references a caller can hold: one made from a node, one made from an
\* IndirectNode, Nil, and one made from a raw 32-bit value.
AttributeIDs ==
    {AttributeID_node(p) : p \in NodePtrs}
        \cup {AttributeID_indirect(p) : p \in IndirectPtrs}
        \cup {make_nil}
        \cup 0..3

\* The graphs resolve is called on: the source of an IndirectNode is Nil, a node, or
\* an IndirectNode at a lower offset, so that no chain cycles.
Graphs ==
    {g \in [IndirectPtrs -> [source : AttributeIDs]] :
        \A p \in IndirectPtrs :
            /\ g[p].source \in {make_nil} \cup {AttributeID_node(q) : q \in NodePtrs \ {0}}
                                \cup {AttributeID_indirect(q) : q \in IndirectPtrs}
            /\ is_indirect(g[p].source) => to_indirect_node(g[p].source) < p}

InitAttr ==
    /\ _compare_by_pointer = TRUE
    /\ _did_remove_key = FALSE
    /\ _did_remove_value = FALSE
    /\ _heap = "null"
    /\ _is_heap_owner = TRUE
    /\ _spare_node = nullptr
    /\ _buckets_mem = "null"
    /\ _buckets = EmptyBuckets
    /\ nodes = <<>>
    /\ _count = 0
    /\ _bucket_mask = 0
    /\ _bucket_mask_width = 0
    /\ mem_log = <<>>
    /\ pc = "live"
    /\ last = NoCall
    /\ calls = 0
    /\ live = <<>>
    /\ removed = {}
    /\ max_live = 0
    /\ _value \in AttributeIDs
    /\ indirect_nodes \in Graphs
    /\ attr_last = NoAttrCall

\* if (attribute) ...
Bool ==
    /\ attr_last' = [NoAttrCall EXCEPT !.op = "bool", !.receiver = _value,
                                       !.flag = operator_bool(_value)]
    /\ UNCHANGED <<tableVars, _value, indirect_nodes>>

\* attribute.kind()
KindOf ==
    /\ attr_last' = [NoAttrCall EXCEPT !.op = "kind", !.receiver = _value,
                                       !.ret = kind(_value)]
    /\ UNCHANGED <<tableVars, _value, indirect_nodes>>

\* attribute = attribute.with_kind(k)
WithKind(k) ==
    /\ _value' = with_kind(_value, k)
    /\ attr_last' = [NoAttrCall EXCEPT !.op = "with_kind", !.receiver = _value, !.arg = k,
                                       !.ret = with_kind(_value, k)]
    /\ UNCHANGED <<tableVars, indirect_nodes>>

\* attribute.resolve(options)
Resolve(options) ==
    /\ LET r == resolve(indirect_nodes, _value, options)
       IN attr_last' = [NoAttrCall EXCEPT !.op = "resolve", !.receiver = _value,
                            !.options = options, !.ret = r.attribute,
                            !.offset = r.offset, !.hops = r.hops, !.trap = r.trap]
    /\ UNCHANGED <<tableVars, _value, indirect_nodes>>

WithKindAny == \E k \in Kinds : WithKind(k)
ResolveAny == \E options \in SUBSET {AssertNotNil, ReportIndirectionInOffset} : Resolve(options)

NextAttr == Bool \/ KindOf \/ WithKindAny \/ ResolveAny

SpecAttr == InitAttr /\ [][NextAttr]_vars

\* The references made from a node pointer or an IndirectNode pointer.
References ==
    {AttributeID_node(p) : p \in NodePtrs \ {0}}
        \cup {AttributeID_indirect(p) : p \in IndirectPtrs}

\* C11: the boolean conversion of an AttributeID is false for the Nil value of
\* make_nil() and true for every reference made from a node pointer or an
\* IndirectNode pointer.
C11_BoolIsValid ==
    attr_last.op = "bool" =>
        /\ attr_last.receiver = make_nil => ~attr_last.flag
        /\ attr_last.receiver \in References => attr_last.flag

\* The value with the two kind bits masked off.
PointerBits(value) == value - (value % 4)

\* C12: for every AttributeID r and every kind k, r.with_kind(k).kind() is k and the
\* pointer bits of r.with_kind(k) are those of r; with_kind applied twice keeps only
\* the last kind.
C12_WithKindRoundTrip ==
    /\ \A k \in Kinds :
          /\ kind(with_kind(_value, k)) = k
          /\ PointerBits(with_kind(_value, k)) = PointerBits(_value)
          /\ \A k2 \in Kinds : with_kind(with_kind(_value, k), k2) = with_kind(_value, k2)
    /\ attr_last.op = "with_kind" =>
          /\ _value = attr_last.ret
          /\ kind(_value) = attr_last.arg
          /\ PointerBits(_value) = PointerBits(attr_last.receiver)

\* with_kind has replaced a different kind on a reference with pointer bits.
C12_Witness ==
    /\ attr_last.op = "with_kind"
    /\ kind(attr_last.receiver) \notin {attr_last.arg, Direct}
    /\ PointerBits(attr_last.receiver) # 0
    /\ kind(_value) = attr_last.arg

\* The number of IndirectNodes between `value` and the Direct reference its chain
\* ends at; -1 when the chain does not end at one.
RECURSIVE HopsToDirect(_, _, _)
HopsToDirect(graph, value, fuel) ==
    IF value % 4 = Direct THEN 0
    ELSE IF value % 4 # Indirect \/ fuel = 0 \/ (value - 1) \notin DOMAIN graph THEN -1
    ELSE LET rest == HopsToDirect(graph, graph[value - 1].source, fuel - 1)
         IN IF rest = -1 THEN -1 ELSE rest + 1

ChainHops(value) == HopsToDirect(indirect_nodes, value, Cardinality(DOMAIN indirect_nodes))

\* C13: for an Indirect chain of n hops that ends at a Direct target,
\* resolve(ReportIndirectionInOffset) returns offset n when n > 0 and 0 when n = 0;
\* without ReportIndirectionInOffset the offset is 0 for every n.
C13_OffsetIsHops ==
    (attr_last.op = "resolve" /\ ChainHops(attr_last.receiver) >= 0) =>
        /\ ~attr_last.trap
        /\ attr_last.offset = IF ReportIndirectionInOffset \in attr_last.options
                              THEN ChainHops(attr_last.receiver) ELSE 0

\* C13 as the header and the resolution algorithm state it: with
\* ReportIndirectionInOffset the offset of a chain of n > 0 hops is n + 1.
C13_OffsetIsHopsPlusOne ==
    (attr_last.op = "resolve" /\ ChainHops(attr_last.receiver) >= 0) =>
        /\ ~attr_last.trap
        /\ is_direct(attr_last.ret)
        /\ attr_last.offset = IF /\ ReportIndirectionInOffset \in attr_last.options
                                 /\ ChainHops(attr_last.receiver) > 0
                              THEN ChainHops(attr_last.receiver) + 1 ELSE 0

\* resolve has reported the offset of a chain of two hops or more.
C13_Witness ==
    /\ attr_last.op = "resolve"
    /\ ReportIndirectionInOffset \in attr_last.options
    /\ ChainHops(attr_last.receiver) >= 2
    /\ attr_last.offset = ChainHops(attr_last.receiver) + 1

\* A call of Insert that returned `ret`.
Inserted(ret) == last'.op = "insert" /\ calls' = calls + 1 /\ pc' = "live" /\ last'.ret = ret

\* C14: the bucket array has 16 buckets after the first insert and _bucket_mask is
\* always 2^_bucket_mask_width - 1; an insert raises the width, by one, exactly when
\* it adds a new key and the count after it exceeds 4 times the bucket count; the
\* new node is then the head of the bucket its hash selects under the new mask; no
\* other call changes the width.
C14_GrowthTrigger ==
    [][/\ (_buckets_mem = "null" /\ _buckets_mem' # "null")
            => _bucket_mask_width' = 4 /\ _bucket_mask' = 15
       /\ _buckets_mem' # "null" => _bucket_mask' = 2^_bucket_mask_width' - 1
       /\ (_buckets_mem # "null" /\ pc' = "live")
            => /\ _bucket_mask_width' \in {_bucket_mask_width, _bucket_mask_width + 1}
               /\ (_bucket_mask_width' = _bucket_mask_width + 1)
                    <=> (Inserted(TRUE) /\ _count' > 4 * 2^_bucket_mask_width)
       /\ Inserted(TRUE)
            => LET n == BucketAt(_buckets', BitAnd(_bucket_mask', _hash(last'.key)))
               IN /\ n # nullptr
                  /\ nodes'[n].key = last'.key
                  /\ nodes'[n].hash_value = _hash(last'.key)
                  /\ n \notin Reachable(nodes, _buckets) \/ n = _spare_node]_vars

\* An insert has grown the bucket array to 32 buckets and linked its node.
C14_Witness ==
    /\ pc = "live"
    /\ _bucket_mask_width = 5 /\ _bucket_mask = 31
    /\ _count = 65
    /\ last.op = "insert" /\ last.ret

\* C15: every table operation terminates: in every state reachable by inserts and
\* removes, lookup, insert, remove and for_each finish after a bounded number of
\* chain steps, for present and absent keys alike.
C15_Terminates ==
    /\ pc # "hung"
    /\ pc = "live" =>
          /\ \A key \in Keys : ~lookup_now(key).hang
          /\ _count # 0 => ~Hangs(Visit(nodes, _buckets))

\* The nodes on the free list.
FreeList == ReachFrom(nodes, _spare_node)

\* C16: every allocated node is in exactly one place, reachable from exactly one
\* bucket chain or on the free list, never both; every bucket chain and the free list
\* are acyclic and null-terminated.
C16_NodePool ==
    pc = "live" =>
        /\ \A n \in 1..Len(nodes) :
              Cardinality({b \in DOMAIN _buckets : n \in ReachFrom(nodes, _buckets[b])})
                  + (IF n \in FreeList THEN 1 ELSE 0) = 1
        /\ \A b \in DOMAIN _buckets : ~Hangs(ChainOf(nodes, _buckets[b]))
        /\ ~Hangs(ChainOf(nodes, _spare_node))

\* C17: a successful remove pushes the node it unlinked on the free list and no node
\* is ever given back; an insert of a new key takes the head of the free list when
\* there is one and allocates only when the free list is empty; so the number of
\* nodes ever allocated is the largest number of entries that were live at once.
C17_Recycling ==
    [][/\ Len(nodes') >= Len(nodes)
       /\ (last'.op = "remove" /\ calls' = calls + 1 /\ pc' = "live" /\ last'.ret)
            => /\ _spare_node' # nullptr
               /\ _spare_node' \notin Reachable(nodes', _buckets')
               /\ nodes'[_spare_node'].next = _spare_node
       /\ Inserted(TRUE)
            => IF _spare_node # nullptr
               THEN /\ Len(nodes') = Len(nodes)
                    /\ _spare_node' = nodes[_spare_node].next
                    /\ _spare_node \in Reachable(nodes', _buckets')
               ELSE Len(nodes') = Len(nodes) + 1
       /\ pc' = "live" => Len(nodes') = max_live']_vars

\* The resets and deletes of an arena so far.
HeapReleases == LET OfHeap(e) == e.what \in {"own", "ext"} IN SelectSeq(mem_log, OfHeap)

\* C18: a table built on the caller's arena never resets or destroys it; a table
\* that created its own arena resets and destroys it exactly once, at teardown; a
\* table that never inserted anything destroys no arena.
C18_ArenaOwnership ==
    /\ \A i \in 1..Len(mem_log) : mem_log[i].what # "ext"
    /\ pc # "destroyed" => HeapReleases = <<>>
    /\ pc = "destroyed" =>
          HeapReleases = IF _heap = "own"
                         THEN <<[call |-> "reset", what |-> "own"],
                                [call |-> "delete", what |-> "own"]>>
                         ELSE <<>>
    /\ _buckets_mem = "null" => _heap # "own"

\* A table built on the caller's arena has been destroyed with entries in it.
C18_Witness ==
    /\ pc = "destroyed"
    /\ _heap = "ext"
    /\ _count > 0
    /\ mem_log # <<>>

\* ============================================================= growth at the cap
\* grow_buckets as a function of the table it is called on, for tables near the
\* largest width.  Such a table has had some 2^31 inserts; all but a few of its
\* nodes are on the free list, which grow_buckets does not read, and only the nodes
\* in chains are kept here.
CapWidths == (max_bucket_mask_width - 2)..max_bucket_mask_width
CapHashes == {0, 1, 2^(max_bucket_mask_width - 2), 2^(max_bucket_mask_width - 1) + 1,
              2^max_bucket_mask_width}

\* The table of width `width` after insert of keys MaxKey + 1, ... with the hashes `hs`.
RECURSIVE Linked(_, _, _, _)
Linked(hs, width, nd, buckets) ==
    IF Len(nd) = Len(hs) THEN [nodes |-> nd, buckets |-> buckets]
    ELSE LET n == Len(nd) + 1
             bucket == BitAnd(2^width - 1, hs[n])
         IN Linked(hs, width,
                   Append(nd, [key |-> MaxKey + n, value |-> 1, hash_value |-> hs[n],
                               next |-> BucketAt(buckets, bucket)]),
                   SetBucket(buckets, bucket, n))

InitCap ==
    /\ _compare_by_pointer = TRUE
    /\ _did_remove_key = FALSE
    /\ _did_remove_value = FALSE
    /\ _heap = "own"
    /\ _is_heap_owner = TRUE
    /\ _spare_node = nullptr
    /\ _buckets_mem = "malloc"
    /\ _bucket_mask_width \in CapWidths
    /\ _bucket_mask = 2^_bucket_mask_width - 1
    /\ \E len \in 0..CapNodes : \E hs \in [1..len -> CapHashes] :
          LET t == Linked(hs, _bucket_mask_width, <<>>, EmptyBuckets)
          IN /\ nodes = t.nodes
             /\ _buckets = t.buckets
             /\ live = [i \in 1..len |-> [key |-> MaxKey + i, value |-> 1]]
             /\ _count = len
             /\ max_live = len
             /\ calls = len
    /\ mem_log = <<>>
    /\ pc = "live"
    /\ last = NoCall
    /\ removed = {}
    /\ _value = 0
    /\ indirect_nodes = <<>>
    /\ attr_last = NoAttrCall

\* A call of grow_buckets(), as insert makes it.
GrowCall ==
    /\ pc = "live"
    /\ LET g == grow_buckets(nodes, _buckets, _buckets_mem, _bucket_mask_width, _bucket_mask,
                             _heap, mem_log)
       IN /\ nodes' = g.nodes
          /\ _bucket_mask_width' = g.width
          /\ _bucket_mask' = g.mask
          /\ _heap' = g.heap
          /\ pc' = IF g.throws THEN "thrown" ELSE IF g.hang THEN "hung" ELSE pc
          /\ IF g.throws \/ g.hang
             THEN UNCHANGED <<_buckets, _buckets_mem, mem_log>>
             ELSE /\ _buckets' = g.buckets
                  /\ _buckets_mem' = g.buckets_mem
                  /\ mem_log' = g.log
          /\ last' = [NoCall EXCEPT !.op = "grow_buckets"]
    /\ UNCHANGED <<cfgVars, _spare_node, _count, calls, live, removed, max_live, attrVars>>

NextCap == GrowCall \/ GrowLookup \/ ForEach

SpecCap == InitCap /\ [][NextCap]_vars

\* C19: the bucket-mask width never exceeds 30; grow_buckets on a table whose width
\* is 30 is a no-op that leaves the width, the mask, the bucket array and every
\* chain unchanged.
C19_GrowthCap ==
    [][/\ _bucket_mask_width' <= 30
       /\ (last'.op = "grow_buckets" /\ _bucket_mask_width = 30)
            => /\ pc' = "live"
               /\ UNCHANGED <<_bucket_mask_width, _bucket_mask, _buckets, _buckets_mem,
                              nodes>>]_vars

\* The releases of a bucket array obtained from the general heap.
ArrayReleases == LET OfHeap(e) == e.what = "malloc" IN SelectSeq(mem_log, OfHeap)

\* C20: the initial 16-bucket array, which comes from the arena, is never handed to
\* the general-heap deallocator, neither when growth replaces it nor when the table
\* is destroyed at its initial width; the arrays grow_buckets obtained from the
\* general heap are released that way, each exactly once.
C20_BucketRelease ==
    /\ \A i \in 1..Len(mem_log) : mem_log[i].what # "arena"
    /\ (pc = "live" /\ _bucket_mask_width > initial_bucket_mask_width)
          => Len(ArrayReleases) = _bucket_mask_width - initial_bucket_mask_width - 1
    /\ pc = "destroyed"
          => Len(ArrayReleases) = IF _bucket_mask_width > initial_bucket_mask_width
                                  THEN _bucket_mask_width - initial_bucket_mask_width
                                  ELSE 0
====
